---- MODULE Spec2Model ----
\* Order-tracking app (src/app.py): the SQLite tables the handlers read and
\* write, the Streamlit sessions that run the handlers concurrently, and the
\* aggregation functions of the dashboard.
\*
\* Every helper of app.py opens its own sqlite3 connection.  SQLite admits one
\* writer at a time: a connection that has executed an INSERT/UPDATE holds the
\* write lock until it commits or is discarded, readers see committed rows only.
\* The variable `writer` is that lock.  A handler is split where another session
\* (or another connection of the same handler) can observe or change the
\* database: between a read through one connection and a write through another.
\*
\* orders.db outlives the process: init_db creates only what is missing, and on
\* a database whose service catalogue is empty it raises before its commit.
\* Init is therefore the database as found at start-up: rows of orders and
\* services already present, the stages table not yet seeded.
\*
\* Three specifications share the handlers: Spec (two sessions, one start-up
\* database), SpecSeq (one session, every start-up set of services within the
\* bounds) and SpecLog (one session, a seeded registry, a change log already
\* holding entries, and the clock of datetime.now() advancing).
EXTENDS Integers, Sequences, FiniteSets, Bags, TLC

VARIABLES stages, services, orders, services_list, changes,
          writer, pc, local, committed, admin_ops, now

vars == <<stages, services, orders, services_list, changes,
          writer, pc, local, committed, admin_ops, now>>

\* ---------------------------------------------------------------- bounds
Sessions == {"s1", "s2"}
MaxInitServices == 2
MaxAdminOps == 2
MaxChanges == 1
MaxInitChanges == 2
MaxClock == 4

\* Names typed into the "New Stage Name" inputs: one that collides with a
\* seeded stage, one fresh, and one that spells a stage id.
NewNames == {"Done", "Review", "st1"}
\* Names typed into the add-stage form: one a seeded stage has, and the input
\* left empty, which submits "".
AddNames == {"Done", ""}
\* Values of the stage_<order_id> query parameter.
StageOptions == {"In Progress", "Done"}
\* Stage names found on the services already in the database.
InitServiceStages == {"To Do", "Done", "Legacy"}

\* uuid.uuid4() values, in the order they are drawn for stage rows.
StageIdPool == <<"st1", "st2", "st3", "st4", "st5", "st6",
                 "st7", "st8", "st9", "st10", "st11", "st12">>

None == "None"

\* ---------------------------------------------------------------- helpers
Max(S) == CHOOSE x \in S : \A y \in S : y <= x
Min(S) == CHOOSE x \in S : \A y \in S : x <= y
Range(f) == {f[i] : i \in DOMAIN f}

RECURSIVE SeqsUpTo(_, _)
SeqsUpTo(S, n) ==
    IF n = 0 THEN {<<>>}
    ELSE LET shorter == SeqsUpTo(S, n - 1)
         IN  shorter \cup {Append(q, x) : q \in {r \in shorter : Len(r) = n - 1}, x \in S}

\* st.session_state.user of a logged-in session.
SessionUser(s) == [id |-> "u1", is_admin |-> TRUE]

\* default_stages of init_db.
DefaultStages == <<[name |-> "To Do", position |-> 1],
                   [name |-> "In Progress", position |-> 2],
                   [name |-> "Done", position |-> 3]>>

\* ---------------------------------------------------------------- queries
\* SELECT id, name, position FROM stages ORDER BY position: every listing the
\* query can return (rows of equal position come in either order).
RECURSIVE OrderedByPosition(_)
OrderedByPosition(rows) ==
    IF rows = {} THEN {<<>>}
    ELSE LET low == Min({r.position : r \in rows})
         IN  UNION {{<<r>> \o rest : rest \in OrderedByPosition(rows \ {r})}
                    : r \in {x \in rows : x.position = low}}

get_stages == OrderedByPosition(stages)

\* SELECT ... FROM services WHERE order_id = ?
get_order_services(order_id) ==
    SelectSeq(services, LAMBDA sv : sv.order_id = order_id)

\* Ids of the rows of the users table.
Users == {"u1", "u2"}

\* Every order for an admin, archived or not, whatever include_archived is.
get_user_orders_unfiltered(user_id, is_admin, include_archived) ==
    IF is_admin THEN orders
    ELSE SelectSeq(orders, LAMBDA o : o.user_id = user_id /\ ~o.archived)

\* The admin's listing served to every viewer.
get_user_orders_unscoped(user_id, is_admin, include_archived) ==
    IF include_archived THEN orders
    ELSE SelectSeq(orders, LAMBDA o : ~o.archived)

\* SELECT * FROM orders [WHERE ...]
get_user_orders(user_id, is_admin, include_archived) ==
    IF is_admin /\ include_archived THEN orders
    ELSE IF is_admin THEN SelectSeq(orders, LAMBDA o : ~o.archived)
    ELSE SelectSeq(orders, LAMBDA o : o.user_id = user_id /\ ~o.archived)

\* SELECT * FROM orders WHERE user_id = ? AND archived = 0
get_orders_for_user(user_id) ==
    SelectSeq(orders, LAMBDA o : o.user_id = user_id /\ ~o.archived)

\* SELECT o.*, u.username FROM orders o JOIN users u ON o.user_id = u.id
\* WHERE o.archived = 0
get_all_active_orders ==
    SelectSeq(orders, LAMBDA o : o.user_id \in Users /\ ~o.archived)

\* {stage[1]: stage[2] for stage in stages}: a later row of the listing
\* overwrites an earlier one of the same name.
RECURSIVE StagePositions(_, _)
StagePositions(listing, acc) ==
    IF listing = <<>> THEN acc
    ELSE LET st == Head(listing)
         IN  StagePositions(Tail(listing),
                 [n \in DOMAIN acc \cup {st.name} |->
                     IF n = st.name THEN st.position ELSE acc[n]])

EmptyDict == [n \in {} |-> 0]

\* stage_positions[stage_name] with a missing name counted as nothing.
DictGetNoDefault(d, key, default) == IF key \in DOMAIN d THEN d[key] ELSE 0

\* stage_positions.get(stage_name, 1)
DictGet(d, key, default) == IF key \in DOMAIN d THEN d[key] ELSE default

\* the for loop of get_order_progress
RECURSIVE TotalPosition(_, _, _)
TotalPosition(svcs, stage_positions, total_position) ==
    IF svcs = <<>> THEN total_position
    ELSE TotalPosition(Tail(svcs), stage_positions,
             total_position + DictGet(stage_positions, Head(svcs).stage, 1))

\* round(num/den, 0) for non-negative arguments, ties to even as Python's round.
RoundDiv(num, den) ==
    LET q == num \div den
        r == num % den
    IN  IF 2 * r > den THEN q + 1
        ELSE IF 2 * r < den THEN q
        ELSE IF q % 2 = 0 THEN q ELSE q + 1

\* max() of an empty sequence raises ValueError and the call returns nothing:
\* written as a number no progress value equals.
ValueError == -1

\* The number of stage names as the denominator.
CountStages(stage_positions) == Cardinality(DOMAIN stage_positions)

\* total_stages = max(stage_positions.values())
TotalStages(stage_positions) == Max(Range(stage_positions))

\* get_order_progress on the rows its two reads returned; the result is in
\* hundredths of a percent (33.33 is 3333).  max() of an empty registry raises.
OrderProgress(svcs, listing) ==
    IF svcs = <<>> THEN 0
    ELSE IF listing = <<>> THEN ValueError
    ELSE LET stage_positions == StagePositions(listing, EmptyDict)
             total_stages == TotalStages(stage_positions)
             total_position == TotalPosition(svcs, stage_positions, 0)
         IN  RoundDiv(total_position * 100 * 100, Len(svcs) * total_stages)

\* The values get_order_progress(order_id) can return in the current state.
get_order_progress(order_id) ==
    LET svcs == get_order_services(order_id)
    IN  IF svcs = <<>> THEN {0}
        ELSE {OrderProgress(svcs, listing) : listing \in get_stages}

\* The values get_order_stage(order_id) can return: the stored stage of a
\* service whose stage equals a stage id, of greatest position; without such a
\* service, field 0 (the id) of the first listed stage.
get_order_stage(order_id) ==
    LET svcs == get_order_services(order_id)
        joined == UNION {{<<svcs[i].stage, st.position>> :
                             st \in {x \in stages : x.id = svcs[i].stage}}
                         : i \in DOMAIN svcs}
    IN  IF joined # {}
        THEN {j[1] : j \in {k \in joined : \A m \in joined : m[2] <= k[2]}}
        ELSE IF stages = {} THEN {"IndexError"}
        ELSE {listing[1].id : listing \in get_stages}

\* Length of a day in ticks of the clock: timedelta.days counts whole days of
\* a difference that is kept to the microsecond.
TicksPerDay == 2

\* Timestamps of the Change entries of an order.
ChangeTimes(order_id) ==
    {changes[i].timestamp : i \in {j \in DOMAIN changes : changes[j].order_id = order_id}}

\* ORDER BY timestamp taken ascending.
OldestTimestamp(order_id) == Min(ChangeTimes(order_id))

\* SELECT timestamp FROM changes WHERE order_id = ? ORDER BY timestamp DESC LIMIT 1
LatestTimestamp(order_id) == Max(ChangeTimes(order_id))

\* A result that is either None or an integer: <<>> for None, <<d>> for d.
NoData == <<>>
Days(d) == <<d>>

\* get_days_since_last_change: None without a row, else
\* (datetime.now() - last_change_time).days, the floor of the difference.
get_days_since_last_change(order_id) ==
    IF ChangeTimes(order_id) = {} THEN NoData
    ELSE Days((now - LatestTimestamp(order_id)) \div TicksPerDay)

\* ---------------------------------------------------------------- state
\* An uncommitted write of a connection, and the arguments of a log_change call.
\* `option` is the value of the stage_<order_id> parameter a stage change was
\* asked with.
NoTx == [kind |-> None, order_id |-> None, stage |-> None, name |-> None,
         option |-> None]
NoLog == [order_id |-> None, user_id |-> None, description |-> <<>>]


\* `snapshot` is history: the values get_order_progress could return if its two
\* reads were taken from the database as it was at the first of them.
NoLocal == [stages |-> <<>>, stage_id |-> None, new_name |-> None,
            position |-> 0, count |-> 0, tx |-> NoTx, log |-> NoLog,
            order_id |-> None, services |-> <<>>, snapshot |-> {}]

InitOrders == <<[id |-> "o1", user_id |-> "u1", archived |-> FALSE],
                [id |-> "o2", user_id |-> "u2", archived |-> FALSE],
                [id |-> "o3", user_id |-> "u2", archived |-> TRUE]>>

InitCommon ==
    /\ orders = InitOrders
    /\ writer = None
    /\ pc = [s \in Sessions |-> "start"]
    /\ local = [s \in Sessions |-> NoLocal]
    /\ committed = EmptyBag
    /\ admin_ops = 0

\* ---------------------------------------------------------------- init_db
\* SELECT COUNT(*) FROM stages
InitDbCount(s) ==
    /\ pc[s] = "start"
    /\ pc' = [pc EXCEPT ![s] = "init_db"]
    /\ local' = [local EXCEPT ![s] = [NoLocal EXCEPT !.count = Cardinality(stages)]]
    /\ UNCHANGED <<stages, services, orders, services_list, now, changes, writer, committed, admin_ops>>

\* The rows executemany inserts for default_stages.
SeededRows(n) ==
    {[id |-> StageIdPool[n + i], name |-> DefaultStages[i].name,
      position |-> DefaultStages[i].position] : i \in DOMAIN DefaultStages}

\* The rest of init_db: seed the stages when the count was 0, then the service
\* catalogue.  default_services holds 1-tuples, so the catalogue insert binds
\* a tuple as the name and raises (ProgrammingError); nothing of the run is
\* committed then and the next run of the script starts over.
InitDbSeed(s) ==
    /\ pc[s] = "init_db"
    /\ local[s].count = 0 => writer = None
    /\ IF services_list = {}
       THEN /\ pc' = [pc EXCEPT ![s] = "start"]
            /\ UNCHANGED stages
       ELSE /\ pc' = [pc EXCEPT ![s] = "idle"]
            /\ stages' = IF local[s].count = 0
                         THEN stages \cup SeededRows(Cardinality(stages))
                         ELSE stages
    /\ local' = [local EXCEPT ![s] = NoLocal]
    /\ UNCHANGED <<services, orders, services_list, now, changes, writer, committed,
                   admin_ops>>

\* ---------------------------------------------------------------- stage registry
\* The position of a new stage without the increment.
LastPosition(listing) ==
    IF listing # <<>>
    THEN Max({listing[i].position : i \in DOMAIN listing})
    ELSE 1

\* max([s[2] for s in stages]) + 1 if stages else 1
NextPosition(listing) ==
    IF listing # <<>>
    THEN Max({listing[i].position : i \in DOMAIN listing}) + 1
    ELSE 1

\* add_stage_form, submit: stages = get_stages() and the position computed
\* from that listing.
AddStageRead(s) ==
    /\ pc[s] = "idle"
    /\ SessionUser(s).is_admin
    /\ admin_ops < MaxAdminOps
    /\ \E new_stage \in AddNames, listing \in get_stages :
         local' = [local EXCEPT ![s] = [NoLocal EXCEPT
                      !.stages = listing,
                      !.new_name = new_stage,
                      !.position = NextPosition(listing)]]
    /\ pc' = [pc EXCEPT ![s] = "add_stage"]
    /\ admin_ops' = admin_ops + 1
    /\ UNCHANGED <<stages, services, orders, services_list, now, changes, writer, committed>>

\* add_stage_form: the INSERT through a new connection, and its commit.
AddStageInsert(s) ==
    /\ pc[s] = "add_stage"
    /\ writer = None
    /\ stages' = stages \cup {[id |-> StageIdPool[Cardinality(stages) + 1],
                               name |-> local[s].new_name,
                               position |-> local[s].position]}
    /\ pc' = [pc EXCEPT ![s] = "idle"]
    /\ local' = [local EXCEPT ![s] = NoLocal]
    /\ UNCHANGED <<services, orders, services_list, now, changes, writer, committed,
                   admin_ops>>

\* rename_stage_form, submit: stages = get_stages(), the selected stage id and
\* the typed name.
RenameStageRead(s) ==
    /\ pc[s] = "idle"
    /\ SessionUser(s).is_admin
    /\ admin_ops < MaxAdminOps
    /\ \E listing \in get_stages :
         /\ listing # <<>>
         /\ \E i \in DOMAIN listing, new_name \in NewNames :
              local' = [local EXCEPT ![s] = [NoLocal EXCEPT
                           !.stages = listing,
                           !.stage_id = listing[i].id,
                           !.new_name = new_name]]
    /\ pc' = [pc EXCEPT ![s] = "rename_stage"]
    /\ admin_ops' = admin_ops + 1
    /\ UNCHANGED <<stages, services, orders, services_list, now, changes, writer, committed>>

\* [s[1] for s in stages if s[0] == stage_id][0]
ListedName(listing, stage_id) ==
    LET i == CHOOSE j \in DOMAIN listing :
                 /\ listing[j].id = stage_id
                 /\ \A k \in 1..(j - 1) : listing[k].id # stage_id
    IN  listing[i].name

\* UPDATE stages SET name = ? WHERE id = ?
RenamedStages(stage_id, new_name) ==
    {IF st.id = stage_id THEN [st EXCEPT !.name = new_name] ELSE st : st \in stages}

\* UPDATE services SET stage = ? WHERE stage = ?
CascadedServices(new_name, old_name) ==
    [i \in DOMAIN services |->
        IF services[i].stage = old_name
        THEN [services[i] EXCEPT !.stage = new_name]
        ELSE services[i]]

\* rename_stage_form: the two UPDATEs of one connection, and its commit.
RenameStageWrite(s) ==
    /\ pc[s] = "rename_stage"
    /\ writer = None
    /\ stages' = RenamedStages(local[s].stage_id, local[s].new_name)
    /\ services' = CascadedServices(local[s].new_name,
                                    ListedName(local[s].stages, local[s].stage_id))
    /\ committed' = committed (+) SetToBag({[kind |-> "rename", order_id |-> None]})
    /\ pc' = [pc EXCEPT ![s] = "idle"]
    /\ local' = [local EXCEPT ![s] = NoLocal]
    /\ UNCHANGED <<orders, services_list, now, changes, writer, admin_ops>>

\* ---------------------------------------------------------------- logged mutations
\* uuid.uuid4() values drawn for order rows.
OrderIdPool == <<"o1", "o2", "o3", "o4", "o5", "o6">>

\* Ids of the orders a listing shows.
Listed(rows) == {rows[i].id : i \in DOMAIN rows}

\* c.execute of a logged mutation: the statement runs in the caller's
\* connection, which holds the write lock from then on, and log_change is
\* called before the caller commits.
BeginLogged(s, tx, description) ==
    /\ writer = None
    /\ writer' = s
    /\ local' = [local EXCEPT ![s] = [NoLocal EXCEPT
                    !.tx = tx,
                    !.log = [order_id |-> tx.order_id, user_id |-> SessionUser(s).id,
                             description |-> description]]]
    /\ pc' = [pc EXCEPT ![s] = "log_change"]
    /\ UNCHANGED <<stages, services, orders, services_list, now, changes,
                   committed, admin_ops>>

\* archive_order, up to its call of log_change.  The pages call it for an
\* order of a listing they read earlier in the run; the function itself takes
\* any order id and does not read the flag before its UPDATE.
ArchiveOrder(s, order_id) ==
    /\ pc[s] = "idle"
    /\ order_id \in Listed(orders)
    /\ BeginLogged(s, [NoTx EXCEPT !.kind = "archive", !.order_id = order_id],
                   <<"Order archived">>)

\* restore_order, up to its call of log_change (admin page, archived orders).
RestoreOrder(s, order_id) ==
    /\ pc[s] = "idle"
    /\ SessionUser(s).is_admin
    /\ \E i \in DOMAIN orders : orders[i].id = order_id /\ orders[i].archived
    /\ BeginLogged(s, [NoTx EXCEPT !.kind = "restore", !.order_id = order_id],
                   <<"Order restored">>)

\* add_service_to_order without a template, up to its call of log_change: the
\* stage stored is field 1 (the name) of the first listed stage.
AddServiceToOrder(s, order_id) ==
    /\ pc[s] = "idle"
    /\ order_id \in Listed(get_user_orders(SessionUser(s).id, SessionUser(s).is_admin, FALSE))
    /\ \E service_name \in services_list, listing \in get_stages :
         /\ listing # <<>>
         /\ BeginLogged(s, [NoTx EXCEPT !.kind = "add_service",
                                        !.order_id = order_id,
                                        !.stage = listing[1].name,
                                        !.name = service_name],
                        <<"Service", service_name, "added">>)

\* new_order_form, submit, up to its call of log_change.
CreateOrder(s) ==
    /\ pc[s] = "idle"
    /\ Len(orders) < Len(OrderIdPool)
    /\ BeginLogged(s, [NoTx EXCEPT !.kind = "create_order",
                                   !.order_id = OrderIdPool[Len(orders) + 1]],
                   <<"Order created">>)

\* st.query_params.get(key)[0]: element 0 of the parameter's string value.
FirstChar(str) ==
    CASE str = "To Do" -> "T"
      [] str = "In Progress" -> "I"
      [] str = "Done" -> "D"
      [] str = "Review" -> "R"
      [] str = "Legacy" -> "L"
      [] OTHER -> "s"

\* Stage changes that have committed so far.
MovesCommitted ==
    BagCardinality([e \in {x \in BagToSet(committed) : x.kind = "move"} |-> committed[e]])

\* Dashboard page with ?stage_<order_id>=<option>: the orders are grouped under
\* orders_by_stage[get_order_stage(id)], a KeyError unless that value is a stage
\* name; then one UPDATE per service read, and the call of log_change.  With
\* no service nothing is written and the connection takes no lock.
DashboardStageChange(s, order_id) ==
    /\ pc[s] = "idle"
    /\ get_order_services(order_id) = <<>> => MovesCommitted < MaxChanges
    /\ LET shown == get_user_orders(SessionUser(s).id, SessionUser(s).is_admin, FALSE)
       IN  /\ order_id \in Listed(shown)
           /\ \E listing \in get_stages :
                LET orders_by_stage == {listing[i].name : i \in DOMAIN listing}
                IN  /\ \A o \in Listed(shown) :
                          \E stage_name \in get_order_stage(o) : stage_name \in orders_by_stage
                    /\ \E option \in orders_by_stage \cap StageOptions :
                         LET new_stage == FirstChar(option)
                             tx == [NoTx EXCEPT !.kind = "move", !.order_id = order_id,
                                                !.stage = new_stage,
                                                !.option = option]
                         IN  IF get_order_services(order_id) # <<>>
                             THEN BeginLogged(s, tx, <<"Order moved to", new_stage>>)
                             ELSE /\ local' = [local EXCEPT ![s] = [NoLocal EXCEPT
                                         !.tx = tx,
                                         !.log = [order_id |-> order_id,
                                                  user_id |-> SessionUser(s).id,
                                                  description |-> <<"Order moved to", new_stage>>]]]
                                  /\ pc' = [pc EXCEPT ![s] = "log_change"]
                                  /\ UNCHANGED <<stages, services, orders, services_list, now,
                                                 changes, writer, committed,
                                                 admin_ops>>

\* The row log_change inserts: its arguments and datetime.now().isoformat().
\* Timestamps are kept as ticks: the text form orders as the times do.
Row(log, timestamp) ==
    [order_id |-> log.order_id, user_id |-> log.user_id,
     description |-> log.description, timestamp |-> timestamp]

\* A log that keeps only the newest entry.
ChangesReplaced(row) == <<row>>

\* INSERT INTO changes
ChangesAfter(row) == Append(changes, row)

\* log_change writing as if no other connection could hold the write lock.
LogChangeNeverLocked == FALSE

\* log_change's INSERT goes through a connection of its own: it cannot take
\* the write lock while any other connection holds it, the caller's included.
LogChangeLocked == writer # None

\* log_change.  Locked out, the INSERT raises "database is locked" after the
\* busy timeout; the exception leaves the calling handler before its commit and
\* the caller's connection is discarded with its uncommitted statement.
LogChange(s) ==
    /\ pc[s] = "log_change"
    /\ IF LogChangeLocked
       THEN /\ writer' = IF writer = s THEN None ELSE writer
            /\ pc' = [pc EXCEPT ![s] = "idle"]
            /\ local' = [local EXCEPT ![s] = NoLocal]
            /\ UNCHANGED changes
       ELSE /\ changes' = ChangesAfter(Row(local[s].log, now))
            /\ pc' = [pc EXCEPT ![s] = "commit"]
            /\ UNCHANGED <<writer, local>>
    /\ UNCHANGED <<stages, services, orders, services_list, now, committed, admin_ops>>

\* The rows of orders and services once the caller's statement is committed.
OrdersAfter(tx, user_id) ==
    CASE tx.kind = "archive" ->
           [i \in DOMAIN orders |-> IF orders[i].id = tx.order_id
                                    THEN [orders[i] EXCEPT !.archived = TRUE]
                                    ELSE orders[i]]
      [] tx.kind = "restore" ->
           [i \in DOMAIN orders |-> IF orders[i].id = tx.order_id
                                    THEN [orders[i] EXCEPT !.archived = FALSE]
                                    ELSE orders[i]]
      [] tx.kind = "create_order" ->
           Append(orders, [id |-> tx.order_id, user_id |-> user_id, archived |-> FALSE])
      [] OTHER -> orders

ServicesAfter(tx) ==
    CASE tx.kind = "add_service" ->
           Append(services, [order_id |-> tx.order_id, name |-> tx.name, stage |-> tx.stage])
      [] tx.kind = "move" ->
           [i \in DOMAIN services |-> IF services[i].order_id = tx.order_id
                                      THEN [services[i] EXCEPT !.stage = tx.stage]
                                      ELSE services[i]]
      [] OTHER -> services

\* conn.commit() of the handler that called log_change.
CommitLogged(s) ==
    /\ pc[s] = "commit"
    /\ orders' = OrdersAfter(local[s].tx, SessionUser(s).id)
    /\ services' = ServicesAfter(local[s].tx)
    /\ committed' = committed (+) SetToBag({[kind |-> local[s].tx.kind,
                                              order_id |-> local[s].tx.order_id]})
    /\ writer' = IF writer = s THEN None ELSE writer
    /\ pc' = [pc EXCEPT ![s] = "idle"]
    /\ local' = [local EXCEPT ![s] = NoLocal]
    /\ UNCHANGED <<stages, services_list, now, changes, admin_ops>>

\* ---------------------------------------------------------------- dashboard reads
\* get_order_progress for an order the dashboard lists, first read:
\* services = get_order_services(order_id) through a connection of its own.
\* Without services the call returns 0 there and reads nothing more.
ProgressReadServices(s, order_id) ==
    /\ pc[s] = "idle"
    /\ order_id \in Listed(get_user_orders(SessionUser(s).id, SessionUser(s).is_admin, FALSE))
    /\ get_order_services(order_id) # <<>>
    /\ local' = [local EXCEPT ![s] = [NoLocal EXCEPT
                    !.order_id = order_id,
                    !.services = get_order_services(order_id),
                    !.snapshot = get_order_progress(order_id)]]
    /\ pc' = [pc EXCEPT ![s] = "get_order_progress"]
    /\ UNCHANGED <<stages, services, orders, services_list, now, changes, writer,
                   committed, admin_ops>>

\* The values the rest of get_order_progress can return: stages = get_stages()
\* through another connection, and the computation on the two results.
ProgressResults(s) ==
    {OrderProgress(local[s].services, listing) : listing \in get_stages}

\* get_order_progress, second read and return.
ProgressReadStages(s) ==
    /\ pc[s] = "get_order_progress"
    /\ pc' = [pc EXCEPT ![s] = "idle"]
    /\ local' = [local EXCEPT ![s] = NoLocal]
    /\ UNCHANGED <<stages, services, orders, services_list, now, changes, writer,
                   committed, admin_ops>>

\* ---------------------------------------------------------------- specification
\* The database found at start-up, two sessions: one order with two services,
\* two orders without, a catalogue of one service.
Init ==
    /\ InitCommon
    /\ stages = {}
    /\ changes = <<>>
    /\ now = 0
    /\ services = <<[order_id |-> "o1", name |-> "Research", stage |-> "To Do"],
                    [order_id |-> "o1", name |-> "Research", stage |-> "Done"]>>
    /\ services_list = {"Research"}

\* The databases a single session can find at start-up: up to MaxInitServices
\* services on either active order, at seeded stages or at a stage no longer
\* in the registry, and a catalogue that may be empty.
ServiceRows == [order_id : {"o1", "o2"}, name : {"Research"}, stage : InitServiceStages]

InitSeq ==
    /\ InitCommon
    /\ stages = {}
    /\ changes = <<>>
    /\ now = 0
    /\ services \in SeqsUpTo(ServiceRows, MaxInitServices)
    /\ services_list \in {{}, {"Research"}}

\* The changes tables a session can find at start-up: up to MaxInitChanges
\* entries of the two active orders, in the order they were written.
ChangeRows(latest) ==
    [order_id : {"o1", "o2"}, user_id : {"u1"},
     description : {<<"Order moved to", "D">>}, timestamp : 0..latest]

\* The stages table after earlier runs: seeded, and the first stage renamed to
\* the text of its own id, the registry on which the dashboard gets as far as
\* its stage changes.
RenamedRegistry ==
    {IF st.position = 1 THEN [st EXCEPT !.name = st.id] ELSE st : st \in SeededRows(0)}

\* A database with a change log: one order with a service, one without.
InitLog ==
    /\ InitCommon
    /\ stages = RenamedRegistry
    /\ services = <<[order_id |-> "o1", name |-> "Research", stage |-> "Done"]>>
    /\ services_list = {"Research"}
    /\ now \in 0..MaxClock
    /\ changes \in {q \in SeqsUpTo(ChangeRows(now), MaxInitChanges) :
                        \A i \in DOMAIN q, j \in DOMAIN q :
                            i < j => q[i].timestamp <= q[j].timestamp}

\* The clock read by datetime.now() advances.
Tick ==
    /\ now < MaxClock
    /\ now' = now + 1
    /\ UNCHANGED <<stages, services, orders, services_list, changes, writer, pc,
                   local, committed, admin_ops>>

Step(s) ==
    \/ InitDbCount(s)
    \/ InitDbSeed(s)
    \/ AddStageRead(s)
    \/ AddStageInsert(s)
    \/ RenameStageRead(s)
    \/ RenameStageWrite(s)
    \/ \E order_id \in Range(OrderIdPool) : ArchiveOrder(s, order_id)
    \/ \E order_id \in Range(OrderIdPool) : RestoreOrder(s, order_id)
    \/ \E order_id \in Range(OrderIdPool) : AddServiceToOrder(s, order_id)
    \/ CreateOrder(s)
    \/ \E order_id \in Range(OrderIdPool) : DashboardStageChange(s, order_id)
    \/ LogChange(s)
    \/ CommitLogged(s)

\* Two sessions; the reads of the dashboard interleave with the other
\* session's writes.
Next ==
    \E s \in Sessions :
        \/ Step(s)
        \/ \E order_id \in Range(OrderIdPool) : ProgressReadServices(s, order_id)
        \/ ProgressReadStages(s)

Spec == Init /\ [][Next]_vars

NextSeq == Step("s1")

SpecSeq == InitSeq /\ [][NextSeq]_vars

\* One session over a database that has a change log, with time passing: the
\* handlers that call log_change.
NextLog ==
    \/ Tick
    \/ InitDbCount("s1")
    \/ InitDbSeed("s1")
    \/ \E order_id \in Range(OrderIdPool) : ArchiveOrder("s1", order_id)
    \/ \E order_id \in Range(OrderIdPool) : RestoreOrder("s1", order_id)
    \/ \E order_id \in Range(OrderIdPool) : DashboardStageChange("s1", order_id)
    \/ LogChange("s1")
    \/ CommitLogged("s1")

SpecLog == InitLog /\ [][NextLog]_vars

\* ---------------------------------------------------------------- properties
OrderIds == {orders[i].id : i \in DOMAIN orders}

\* Position of a stage name in the registry: the greatest position among the
\* stages of that name, 1 when no stage has the name.
RegistryPosition(name) ==
    IF \E st \in stages : st.name = name
    THEN Max({st.position : st \in {x \in stages : x.name = name}})
    ELSE 1

\* Sum of the registry positions of an order's services, counted per position.
RECURSIVE PositionSum(_, _)
PositionSum(order_id, p) ==
    IF p = 0 THEN 0
    ELSE p * Cardinality({i \in DOMAIN services :
                             /\ services[i].order_id = order_id
                             /\ RegistryPosition(services[i].stage) = p})
         + PositionSum(order_id, p - 1)

ServiceCount(order_id) ==
    Cardinality({i \in DOMAIN services : services[i].order_id = order_id})

\* C1: with a non-empty registry of maximum position M, get_order_progress is
\* 0 for an order without services and otherwise the hundredth nearest to
\* 100 * mean(p1..pn) / M, pi being the registry position of service i's stage
\* name (the greatest one when stages share the name) and 1 for a name that is
\* not in the registry.
C1_ProgressIsReference ==
    stages # {} =>
        \A order_id \in OrderIds : \A progress \in get_order_progress(order_id) :
            LET n == ServiceCount(order_id)
                M == Max({st.position : st \in stages})
                S == PositionSum(order_id, M)
                d == 100 * 100 * S - progress * n * M
            IN  IF n = 0 THEN progress = 0
                ELSE 2 * d <= n * M /\ -2 * d <= n * M

\* An order with services at positions 3 and 1 of 3 (the 1 through a name
\* missing from the registry) whose progress is 66.67.
C1_Witness ==
    /\ stages # {}
    /\ \E order_id \in OrderIds :
         /\ 6667 \in get_order_progress(order_id)
         /\ \E i \in DOMAIN services :
              /\ services[i].order_id = order_id
              /\ \A st \in stages : st.name # services[i].stage

\* Position of the stage(s) listed first.
LowestPosition == Min({st.position : st \in stages})

\* C2: for an order with at least one service, get_order_stage returns the
\* stage of one of its services, and none of its services is at a stage of
\* higher position.
C2_StageIsMostAdvanced ==
    stages # {} =>
        \A order_id \in OrderIds : \A stage \in get_order_stage(order_id) :
            ServiceCount(order_id) > 0 =>
                /\ \E i \in DOMAIN services :
                     services[i].order_id = order_id /\ services[i].stage = stage
                /\ \A i \in DOMAIN services :
                     services[i].order_id = order_id =>
                         RegistryPosition(services[i].stage) <= RegistryPosition(stage)

\* C3: for an order without services, get_order_stage returns the name of the
\* lowest-position stage, a key of the dashboard's orders_by_stage.
C3_EmptyOrderAtInitialStage ==
    stages # {} =>
        \A order_id \in OrderIds : \A stage \in get_order_stage(order_id) :
            ServiceCount(order_id) = 0 =>
                \E st \in stages : st.name = stage /\ st.position = LowestPosition

\* C4: when a rename of a stage commits, every service that was at the stage's
\* name before the commit is at the new name after it.
C4_RenameReachesEveryService ==
    [][\A s \in Sessions :
          RenameStageWrite(s) =>
              \A st \in stages :
                  st.id = local[s].stage_id =>
                      \A i \in DOMAIN services :
                          services[i].stage = st.name =>
                              services'[i].stage = local[s].new_name]_vars

\* C5: a rename leaves the progress of every order as it was.
C5_RenameKeepsProgress ==
    [][\A s \in Sessions :
          RenameStageWrite(s) =>
              \A order_id \in OrderIds :
                  get_order_progress(order_id)' = get_order_progress(order_id)]_vars

\* The action a Change entry describes.
EntryKind(entry) ==
    CASE entry.description = <<"Order archived">> -> "archive"
      [] entry.description = <<"Order restored">> -> "restore"
      [] entry.description = <<"Order created">> -> "create_order"
      [] entry.description[1] = "Service" -> "add_service"
      [] entry.description[1] = "Order moved to" -> "move"
      [] OTHER -> "rename"

Entries(kind, order_id) ==
    Cardinality({i \in DOMAIN changes :
                    EntryKind(changes[i]) = kind /\ changes[i].order_id = order_id})

LoggedKinds == {"archive", "restore", "create_order", "add_service", "move"}

\* Handlers whose Change entry is committed, whose own commit is still to come
\* and whose connection has nothing to commit.
NothingToCommit(kind, order_id) ==
    Cardinality({s \in Sessions :
                    /\ pc[s] = "commit"
                    /\ local[s].tx.kind = kind
                    /\ local[s].tx.order_id = order_id
                    /\ writer # s})

\* C6: the changes table holds an entry for an archive, restore, create-order,
\* add-service or stage-change action only if the statements of that action
\* are committed (or the action had no statement to commit).
C6_EntryOnlyWithMutation ==
    \A i \in DOMAIN changes :
        LET kind == EntryKind(changes[i])
            order_id == changes[i].order_id
        IN  kind \in LoggedKinds =>
                Entries(kind, order_id) <=
                    CopiesIn([kind |-> kind, order_id |-> order_id], committed)
                    + NothingToCommit(kind, order_id)

\* A Change entry is committed, its handler has returned, and another logged
\* mutation is at its call of log_change with its statement uncommitted.
C6_Witness ==
    /\ \E order_id \in OrderIds :
         /\ Entries("move", order_id) = 1
         /\ CopiesIn([kind |-> "move", order_id |-> order_id], committed) = 1
    /\ \E s \in Sessions :
         pc[s] = "log_change" /\ writer = s /\ local[s].tx.kind = "archive"

\* C7: once every handler has returned, each committed mutation (create order,
\* add service, change stage, archive, restore, rename stage) has exactly one
\* Change entry.
C7_OneEntryPerMutation ==
    (\A s \in Sessions : pc[s] \notin {"log_change", "commit"}) =>
        \A kind \in LoggedKinds \cup {"rename"},
           order_id \in Range(OrderIdPool) \cup {None} :
            CopiesIn([kind |-> kind, order_id |-> order_id], committed)
                = Entries(kind, order_id)

\* C8: the stage stored for a service by add_service_to_order is at position 1
\* of the name-to-position mapping get_order_progress builds.
C8_AddedServiceAtPositionOne ==
    \A s \in Sessions :
        (pc[s] = "log_change" /\ local[s].tx.kind = "add_service") =>
            \A listing \in get_stages :
                LET stage_positions == StagePositions(listing, EmptyDict)
                IN  /\ local[s].tx.stage \in DOMAIN stage_positions
                    /\ stage_positions[local[s].tx.stage] = 1

\* C9: no two rows of the stages table share a position.
C9_PositionsUnique ==
    \A a \in stages, b \in stages : a.position = b.position => a = b

\* C10: when add-stage commits a stage named N and no stage row was committed
\* since the handler listed the stages, every listing afterwards is ascending
\* by position and has an entry named N at the previous maximum position + 1
\* (at 1 when there was no stage).
C10_AddStageRoundTrip ==
    [][\A s \in Sessions :
          (AddStageInsert(s) /\ stages = Range(local[s].stages)) =>
              \A listing \in get_stages' :
                  /\ \E i \in DOMAIN listing :
                       /\ listing[i].name = local[s].new_name
                       /\ listing[i] \notin stages
                       /\ listing[i].position =
                              IF stages = {} THEN 1
                              ELSE Max({st.position : st \in stages}) + 1
                  /\ \A i \in DOMAIN listing, j \in DOMAIN listing :
                       i < j => listing[i].position <= listing[j].position]_vars

\* A stage added under a name another stage already has is listed last, one
\* position after the previous maximum.
C10_Witness ==
    \E st \in stages :
        /\ st.name = "Done"
        /\ st.position = 4
        /\ Cardinality(stages) = 4

\* C11: an add-stage submitted with an empty name is rejected: its INSERT
\* leaves the stages table as it was.
C11_EmptyNameRejected ==
    [][\A s \in Sessions :
          (AddStageInsert(s) /\ local[s].new_name = "") => stages' = stages]_vars

\* C12: every value a get_order_progress call returns is one the call would
\* return on a single state of the database, the one at its first read or the
\* one at its second: it never combines the services of one with the stage
\* registry of the other across a rename.
C12_ProgressFromOneSnapshot ==
    [][\A s \in Sessions :
          ProgressReadStages(s) =>
              ProgressResults(s) \subseteq
                  (local[s].snapshot \cup get_order_progress(local[s].order_id))]_vars

\* C13: get_days_since_last_change is None, which is not 0, for an order
\* without Change entries; for an order with entries it is the number d of
\* whole days from the greatest timestamp among them to now.
C13_DaysSinceLastChange ==
    \A order_id \in OrderIds :
        LET result == get_days_since_last_change(order_id)
            own == {i \in DOMAIN changes : changes[i].order_id = order_id}
        IN  IF own = {}
            THEN result = NoData /\ result # Days(0)
            ELSE \E i \in own, days \in 0..MaxClock :
                    /\ \A j \in own : changes[j].timestamp <= changes[i].timestamp
                    /\ result = Days(days)
                    /\ days * TicksPerDay <= now - changes[i].timestamp
                    /\ now - changes[i].timestamp < (days + 1) * TicksPerDay

\* An order with an entry from start-up and a later one, written by log_change
\* a day and a half before now, next to an order without entries.
C13_Witness ==
    /\ \E order_id \in OrderIds :
         /\ Cardinality(ChangeTimes(order_id)) = 2
         /\ now - LatestTimestamp(order_id) = TicksPerDay + 1
         /\ get_days_since_last_change(order_id) = Days(1)
         /\ CopiesIn([kind |-> "move", order_id |-> order_id], committed) = 1
    /\ \E order_id \in OrderIds : get_days_since_last_change(order_id) = NoData

\* The archived flag of a row of orders.
Archived(order_id) ==
    \E i \in DOMAIN orders : orders[i].id = order_id /\ orders[i].archived

\* C14: no default listing returns an archived order: get_user_orders with
\* include_archived = False (admin or not), get_orders_for_user and
\* get_all_active_orders.
C14_ArchivedNotListed ==
    /\ \A user_id \in Users, is_admin \in BOOLEAN :
          \A order_id \in Listed(get_user_orders(user_id, is_admin, FALSE)) :
              ~Archived(order_id)
    /\ \A user_id \in Users :
          \A order_id \in Listed(get_orders_for_user(user_id)) : ~Archived(order_id)
    /\ \A order_id \in Listed(get_all_active_orders) : ~Archived(order_id)

\* A user with an archived order and an active one, listed without the
\* archived one, while archive_order has its UPDATE of another order pending.
C14_Witness ==
    /\ \E user_id \in Users, a \in OrderIds, b \in OrderIds :
         /\ Archived(a) /\ ~Archived(b)
         /\ \E i \in DOMAIN orders : orders[i].id = a /\ orders[i].user_id = user_id
         /\ Listed(get_user_orders(user_id, FALSE, FALSE)) = {b}
         /\ Listed(get_orders_for_user(user_id)) = {b}
         /\ b \in Listed(get_all_active_orders) /\ a \notin Listed(get_all_active_orders)
    /\ \E s \in Sessions : pc[s] = "log_change" /\ local[s].tx.kind = "archive"

\* C15: when archive_order is called for an order that is already archived,
\* its call of log_change appends one Change entry, and the order stays
\* archived.
C15_RearchiveLogged ==
    [][\A s \in Sessions :
          (/\ LogChange(s)
           /\ local[s].tx.kind = "archive"
           /\ Archived(local[s].tx.order_id)) =>
              /\ Len(changes') = Len(changes) + 1
              /\ changes'[Len(changes')].order_id = local[s].tx.order_id
              /\ Archived(local[s].tx.order_id)']_vars

\* C16: the change log is append-only: every step leaves each entry of the
\* changes table in place and unaltered.
C16_LogAppendOnly ==
    [][\A i \in DOMAIN changes :
          i \in DOMAIN changes' /\ changes'[i] = changes[i]]_vars

\* An entry found at start-up is still first in the log after log_change has
\* written a later one and its caller has committed.
C16_Witness ==
    /\ Len(changes) >= 2
    /\ MovesCommitted = 1
    /\ changes[1].timestamp < changes[Len(changes)].timestamp
    /\ changes[1].description = <<"Order moved to", "D">>
    /\ changes[Len(changes)].description = <<"Order moved to", "I">>

\* C17: once init_db has run, every value get_order_progress returns for an
\* order is a number from 0 to 100 (0 to 10000 hundredths), whatever stages
\* were added or renamed and whatever stage changes were made before.
C17_ProgressInRange ==
    (\E s \in Sessions : pc[s] \notin {"start", "init_db"}) =>
        \A order_id \in OrderIds : \A progress \in get_order_progress(order_id) :
            progress \in 0..10000

\* After a second stage named "Done" was added and another stage renamed, an
\* order with both services at "Done" is at exactly 100.
C17_Witness ==
    /\ admin_ops = 2
    /\ Cardinality(stages) = 4
    /\ \E st \in stages : st.name = "Review"
    /\ \E order_id \in OrderIds :
         /\ ServiceCount(order_id) = 2
         /\ get_order_progress(order_id) = {10000}

\* C18: with an empty stage registry, get_order_progress for an order that
\* has services returns a number, the one maxPosition = 1 gives: every service
\* counts as position 1, so 100.
C18_EmptyRegistryProgress ==
    stages = {} =>
        \A order_id \in OrderIds :
            ServiceCount(order_id) > 0 => get_order_progress(order_id) = {10000}

\* C19: when archive_order, restore_order or add_service_to_order has run its
\* statement and calls log_change while no other session is writing, the
\* Change entry is appended and the handler goes on to commit its statement.
C19_LoggedMutationCompletes ==
    [][\A s \in Sessions :
          (/\ LogChange(s)
           /\ local[s].tx.kind \in {"archive", "restore", "add_service"}
           /\ writer = s) =>
              /\ changes' = Append(changes, Row(local[s].log, now))
              /\ pc'[s] = "commit"]_vars

\* C20: whatever include_archived is, get_user_orders for a viewer who is not
\* an admin returns only orders of that viewer.
C20_NonAdminSeesOwnOrders ==
    \A user_id \in Users, include_archived \in BOOLEAN :
        LET shown == get_user_orders(user_id, FALSE, include_archived)
        IN  \A i \in DOMAIN shown : shown[i].user_id = user_id

\* Each of two users has an active order, and each is shown one order, while
\* a session is at work on the other user's order.
C20_Witness ==
    /\ \A user_id \in Users :
          /\ Len(get_user_orders(user_id, FALSE, TRUE)) = 1
          /\ \E i \in DOMAIN orders :
                orders[i].user_id # user_id /\ ~orders[i].archived
    /\ \E s \in Sessions :
          /\ pc[s] = "log_change"
          /\ \E i \in DOMAIN orders :
                /\ orders[i].id = local[s].tx.order_id
                /\ orders[i].user_id # SessionUser(s).id

\* C21: when the dashboard's stage change of an order that has services
\* returns, every service of that order is at the selected stage, and the
\* services of the other orders and the stages table are as they were.
C21_StageChangeFrame ==
    [][\A s \in Sessions :
          (/\ pc[s] \in {"log_change", "commit"}
           /\ local[s].tx.kind = "move"
           /\ get_order_services(local[s].tx.order_id) # <<>>
           /\ pc'[s] = "idle") =>
              /\ DOMAIN services' = DOMAIN services
              /\ \A i \in DOMAIN services :
                    IF services[i].order_id = local[s].tx.order_id
                    THEN services'[i] = [services[i] EXCEPT !.stage = local[s].tx.option]
                    ELSE services'[i] = services[i]
              /\ stages' = stages]_vars

====
